---- MODULE Spec2Model ----
(***************************************************************************)
(* crisp-cache: a read-through cache with Valid -> Stale -> Expired        *)
(* entries, a per-key fetch lock and an LRU eviction strategy.             *)
(*                                                                         *)
(* The repository holds three generations of the cache, all modelled here  *)
(* and selected by the variable impl:                                      *)
(*   "js1"  src/main.js lines 1-394     (callback API, earlier snapshot)   *)
(*   "js2"  src/main.js lines 395-933   (callback API, later snapshot)     *)
(*   "ts"   src/src/main.ts lines 613-1180 (promise API over a backend)    *)
(* js1/js2 use lib/CacheEntry (src/unnamed/part_004) and src/lib/Lru.js;   *)
(* ts uses src/src/lib/CacheEntry.ts, Backends/Memory/Memory.ts and the    *)
(* Lru of src/unnamed/part_008. The earlier snapshot of the js Lru         *)
(* (src/unnamed/part_005, no hash) is modelled on its own as LruOld_*.     *)
(***************************************************************************)
EXTENDS Integers, Sequences, FiniteSets, TLC

\* ------------------------------------------------------------- bounds
MaxTime == 4         \* the clock runs 0..MaxTime
TickStep == 2        \* in steps of TickStep
MaxCalls == 2        \* get calls issued in one run
MaxFetches == 2      \* fetcher invocations in one run
ConfStaleTtl == 1    \* configured default stale TTL
ConfExpiresTtl == 3  \* configured default expires TTL
ConfMaxSize == 1     \* configured maxSize when a bound is configured
MaxNodes == 3        \* Entry objects the Lru heap may hold (evicted ones linger)
MaxLruCalls == 1     \* get calls issued in one run of SpecLru
EvictMaxSize == 3    \* the larger maxSize an Lru driven alone is constructed with
TouchMaxSize == 2    \* the maxSize of the Lru driven alone with three keys
TouchMaxNodes == 4   \* Entry objects that Lru may hold
EvictSizeSlack == 2  \* an Lru driven alone is followed while its size is in -EvictSizeSlack..maxSize+EvictSizeSlack
FetchTimeout == 1    \* the fetchTimeout option the ts cache is constructed with
RandomDen == 4       \* Math.random() is drawn from the multiples of 1/RandomDen in [0, 1)
MaxVariance == 3     \* the variance options of a cache are drawn from 0..MaxVariance

\* ------------------------------------------------------------- domains
Keys == {"k1", "k2", "k3"}
\* the keys the two-key specifications use
PairKeys == {"k1", "k2"}
\* the keys the operations of Next are called with
GetKeys == {"k1"}
KeySeq == <<"k1", "k2", "k3">>
Values == {"v1"}
Undefined == "undefined"
Impls == {"js1", "js2", "ts"}
Sizes == {1, 2}

\* JavaScript null and undefined as link values; node ids are 1, 2, ...
Null == 0
Undef == 0 - 1
Truthy(p) == p >= 1

\* ------------------------------------------------------------- LRU
\* An Lru object: aggregate size, head/tail links, the key -> node hash and
\* the heap of Entry objects (nodes[i] is the Entry with id i).
NewLru == [size |-> 0, head |-> Null, tail |-> Null,
           hash |-> [k \in Keys |-> Undef], nodes |-> <<>>]

Res(l, ev, err) == [l |-> l, ev |-> ev, err |-> err]

\* new Entry(key, size): js sets both links to null, ts leaves them undefined
Entry(key, size, ts) ==
    [key |-> key, size |-> size,
     newer |-> IF ts THEN Undef ELSE Null,
     older |-> IF ts THEN Undef ELSE Null]

\* Lru.del / Lru.delete: unlink hash[key]; fire is TRUE when the deletion
\* notification is not skipped. c is the entry found in the hash.
Lru_delNewer(l, c) ==
    LET nw == l.nodes[c].newer IN
    IF Truthy(nw)
    THEN [l EXCEPT !.nodes[nw].older = l.nodes[c].older,
                   !.tail = IF l.nodes[c].older = Null THEN nw ELSE @]
    ELSE [l EXCEPT !.head = l.nodes[c].older]

Lru_delOlder(l, c) ==
    LET od == l.nodes[c].older IN
    IF Truthy(od)
    THEN [l EXCEPT !.nodes[od].newer = l.nodes[c].newer,
                   !.head = IF l.nodes[c].newer = Null THEN od ELSE @]
    ELSE [l EXCEPT !.tail = l.nodes[c].newer]

Lru_del(l, key, fire) ==
    IF ~Truthy(l.hash[key]) THEN Res(l, <<>>, "none")
    ELSE Res([Lru_delOlder(Lru_delNewer(l, l.hash[key]), l.hash[key])
                 EXCEPT !.size = @ - l.nodes[l.hash[key]].size, !.hash[key] = Undef],
             IF fire THEN <<key>> ELSE <<>>, "none")

\* Lru.shift: evict the tail. js dereferences a null tail or head (TypeError);
\* ts guards both.
Lru_shift(l, ts) ==
    LET t == l.tail
        k == l.nodes[t].key
        unhead(x) == IF x.nodes[x.head].key = k THEN [x EXCEPT !.head = Null] ELSE x
        rest(x) == IF ~Truthy(x.head)
                   THEN IF ts THEN Res([x EXCEPT !.tail = x.nodes[t].newer], <<k>>, "none")
                        ELSE Res(x, <<>>, "TypeError")
                   ELSE Res([unhead(x) EXCEPT !.tail = x.nodes[t].newer], <<k>>, "none")
    IN IF ~Truthy(t)
       THEN Res(l, <<>>, IF ts THEN "none" ELSE "TypeError")
       ELSE rest([l EXCEPT !.hash[k] = Undef, !.size = @ - l.nodes[t].size])

\* Lru._moveToHead(entry): e is the id of the entry in the heap
Lru_moveToHead(l, e) ==
    LET key == l.nodes[e].key
        relink(d) == IF Truthy(d.head)
                     THEN [d EXCEPT !.nodes[d.head].newer = e, !.nodes[e].older = d.head]
                     ELSE d
        finish(x) == [x EXCEPT !.head = e, !.size = @ + x.nodes[e].size, !.hash[key] = e]
    IN finish(IF l.head # Null THEN relink(Lru_del(l, key, FALSE).l) ELSE l)

\* the loop of put/set: while (size > maxSize) shift(); maxSize 0 stands for
\* an absent bound (the comparison with undefined is false).
\* A shift that finds no tail changes nothing in ts, so the loop never ends
\* ("hang"); every other shift lowers the size, so the loop ends.
RECURSIVE Lru_evictLoop(_, _, _, _)
Lru_evictLoop(l, max, ts, ev) ==
    LET cont(r) == IF r.err # "none" THEN Res(r.l, ev \o r.ev, r.err)
                   ELSE Lru_evictLoop(r.l, max, ts, ev \o r.ev)
    IN IF max = 0 \/ l.size <= max THEN Res(l, ev, "none")
       ELSE IF ts /\ ~Truthy(l.tail) THEN Res(l, ev, "hang")
       ELSE cont(Lru_shift(l, ts))

\* Lru.put(key, size) / Lru.set(key, size)
Lru_put(l, key, size, max, ts) ==
    LET e == Len(l.nodes) + 1
        tailFix(x) == IF x.tail = Null THEN [x EXCEPT !.tail = e] ELSE x
    IN Lru_evictLoop(
         tailFix(Lru_moveToHead([l EXCEPT !.nodes = Append(@, Entry(key, size, ts))], e)),
         max, ts, <<>>)

\* ts Lru.get(key): an existing entry is moved to the head as it is
Lru_get(l, key) ==
    IF Truthy(l.hash[key]) THEN Lru_moveToHead(l, l.hash[key]) ELSE l

\* Lru.clear: js resets hash and size only; ts shifts until the tail is empty
\* (more shifts than there are entries means the newer links form a cycle)
RECURSIVE Lru_clearLoop(_, _, _)
Lru_clearLoop(l, ev, n) ==
    LET cont(r) == Lru_clearLoop(r.l, ev \o r.ev, n - 1)
    IN IF ~Truthy(l.tail) THEN Res(l, ev, "none")
       ELSE IF n = 0 THEN Res(l, ev, "hang")
       ELSE cont(Lru_shift(l, TRUE))

Lru_clear(l, ts) ==
    IF ts THEN Lru_clearLoop(l, <<>>, Len(l.nodes) + 1)
    ELSE Res([l EXCEPT !.hash = [k \in Keys |-> Undef], !.size = 0], <<>>, "none")

\* Entry objects no reference reaches are garbage: the heap is renumbered in
\* the order a walk from head, tail and the hash first meets each node.
RECURSIVE Visit(_, _, _)
Visit(nodes, todo, seen) ==
    IF todo = <<>> THEN seen
    ELSE IF ~Truthy(Head(todo)) \/ (\E i \in 1..Len(seen) : seen[i] = Head(todo))
         THEN Visit(nodes, Tail(todo), seen)
         ELSE Visit(nodes, <<nodes[Head(todo)].older, nodes[Head(todo)].newer>> \o Tail(todo),
                    Append(seen, Head(todo)))

Renumber(l, ord) ==
    LET ren(p) == IF Truthy(p) THEN CHOOSE i \in 1..Len(ord) : ord[i] = p ELSE p
    IN [size |-> l.size, head |-> ren(l.head), tail |-> ren(l.tail),
        hash |-> [k \in Keys |-> ren(l.hash[k])],
        nodes |-> [i \in 1..Len(ord) |->
                     [key |-> l.nodes[ord[i]].key, size |-> l.nodes[ord[i]].size,
                      newer |-> ren(l.nodes[ord[i]].newer),
                      older |-> ren(l.nodes[ord[i]].older)]]]

Collect(l) ==
    Renumber(l, Visit(l.nodes,
                      <<l.head, l.tail>> \o [i \in 1..Len(KeySeq) |-> l.hash[KeySeq[i]]],
                      <<>>))

\* ------------------------------------------------------------- options
\* An optional number (a TTL or a size an options object may leave undefined)
\* is the empty set or a singleton.
None == {}
Some(x) == {x}
Get(o) == CHOOSE x \in o : TRUE
OrElse(o, d) == IF o = None THEN d ELSE Get(o)
Opts(stale, expires, size) == [stale |-> stale, expires |-> expires, size |-> size]
NoOpts == Opts(None, None, None)

\* ------------------------------------------------------------- CacheEntry
EntryStaleDefault == 300000

NoEntry == [present |-> FALSE]

\* lib/CacheEntry (js): falsy TTLs and sizes fall back to 300000, 0 and null
JsCacheEntry(value, staleTtl, expiresTtl, size, t) ==
    [present |-> TRUE, value |-> value,
     staleTtl |-> IF staleTtl = 0 THEN EntryStaleDefault ELSE staleTtl,
     expiresTtl |-> expiresTtl,
     size |-> OrElse(size, Null), created |-> t]

\* lib/CacheEntry.ts: the ttls are kept as given; the size getter reads _size,
\* which nothing assigns
TsCacheEntry(value, staleTtl, expiresTtl, size, t) ==
    [present |-> TRUE, value |-> value, staleTtl |-> staleTtl,
     expiresTtl |-> expiresTtl, size |-> Undef, created |-> t]

\* CacheEntry.getState (js)
JsGetState(e, t) ==
    IF e.expiresTtl > 0 /\ t > e.created + e.expiresTtl THEN "EXPIRED"
    ELSE IF t > e.created + e.staleTtl THEN "STALE"
    ELSE "VALID"

\* CacheEntry.getState as lib/CacheEntry.js has it: staleness is tested first
LibGetState(e, t) ==
    IF t > e.created + e.staleTtl THEN "STALE"
    ELSE IF e.expiresTtl > 0 /\ t > e.created + e.expiresTtl THEN "EXPIRED"
    ELSE "VALID"

\* CacheEntry.state (ts)
TsState(e, t) ==
    IF e.expiresTtl >= 0 /\ t > e.created + e.expiresTtl THEN "EXPIRED"
    ELSE IF e.staleTtl >= 0 /\ t > e.created + e.staleTtl THEN "STALE"
    ELSE "VALID"

\* the {staleTtl, expiresTtl} options a refresh of entry e is started with
EntryTtls(e) == Opts(Some(e.staleTtl), Some(e.expiresTtl), None)

\* no library method has been called directly
NoProbe == [op |-> "none"]

\* ------------------------------------------------------------- state
VARIABLES
    impl,      \* which generation of the cache was constructed
    maxSize,   \* the maxSize option; 0 when none was given
    now,       \* Date.now()
    cache,     \* this.cache / Memory.entries: key -> CacheEntry or NoEntry
    order,     \* ts: the keys of Memory.entries in Map insertion order
    lru,       \* the Lru object (unused by js when maxSize is absent)
    locks,     \* this.locks: key -> the waiters queued on the key's fetch
    calls,     \* every get call issued so far, by call id
    fetches,   \* every fetcher invocation so far, by invocation id
    failed,    \* key -> the last thing that happened to the key was a failed fetch
    fresh,     \* key -> the write (set or fetch) the last operation made to the key
    halted,    \* the event loop is stuck in a loop that never ends
    probe      \* the last direct call of a library object's method, with its result

vars == <<impl, maxSize, now, cache, order, lru, locks, calls, fetches, failed, fresh, halted, probe>>

IsTs == impl = "ts"
\* js: this._lru exists only when maxSize is truthy; ts: the Lru always exists
LruOn == IsTs \/ maxSize # 0

State(e) == IF IsTs THEN TsState(e, now) ELSE JsGetState(e, now)

Running(k) == {f \in 1..Len(fetches) : fetches[f].key = k /\ fetches[f].st = "run"}

\* the last write to a key: a set that reported success (src "set"), or a
\* fetcher that delivered a value, to waiting callers (src "fetch") or in the
\* background (src "refresh")
NoWrite == [src |-> "none"]
Written(src, val, size) == [src |-> src, val |-> val, size |-> size]
\* the src of a set that reported success: "set0" when its expires TTL is 0,
\* "setNeg" when it is negative
SetSrc(o) ==
    IF OrElse(o.expires, ConfExpiresTtl) = 0 THEN "set0"
    ELSE IF OrElse(o.expires, ConfExpiresTtl) < 0 THEN "setNeg"
    ELSE "set"
\* a set of js that ended in an error: err is "size" when the callback was
\* given the error of a missing size, else the exception the call threw
Refused(err) == [src |-> "error", err |-> err]
\* after an operation on key: w for that key, nothing for the others
Only(key, w) == [k \in Keys |-> IF k = key THEN w ELSE NoWrite]

\* ------------------------------------------------------------- waiters
\* A waiter is the id of a get call, or 0 for the callback of a background
\* fetch that nobody listens to.
Complete(c, err, val) == [c EXCEPT !.pc = "done", !.err = err, !.val = val]

\* the bundle [cache, locks, calls, lru, order] the handlers below pass along
Bundle(c, lk, cs, l, od) == [cache |-> c, locks |-> lk, calls |-> cs, lru |-> l, order |-> od]

Without(od, k) == SelectSeq(od, LAMBDA x : x # k)

\* _resolveLocks(key, value, err) of js: every queued callback is called with
\* the error if there is one, else with the value, and the entry is removed
Js_resolveLocks(b, key, val, err) ==
    LET ws == b.locks[key] IN
    [b EXCEPT !.locks[key] = <<>>,
              !.calls = [i \in 1..Len(b.calls) |->
                  IF \E j \in 1..Len(ws) : ws[j] = i
                  THEN Complete(b.calls[i], err, IF err = "none" THEN val ELSE Undefined)
                  ELSE b.calls[i]]]

\* resolveLocks of ts: on an error every deferred is rejected with the value
\* (not with the error), else resolved with it
Ts_resolveLocks(b, key, val, err) ==
    LET ws == b.locks[key] IN
    [b EXCEPT !.locks[key] = <<>>,
              !.calls = [i \in 1..Len(b.calls) |->
                  IF \E j \in 1..Len(ws) : ws[j] = i
                  THEN IF err = "none"
                       THEN Complete(b.calls[i], "none", val)
                       ELSE Complete(b.calls[i], val, Undefined)
                  ELSE b.calls[i]]]

\* CrispCache.del(key, {skipLruDelete}) of js
Js_del(b, key, skipLruDelete) ==
    LET b1 == IF LruOn /\ ~skipLruDelete
              THEN [b EXCEPT !.lru = Lru_del(b.lru, key, FALSE).l] ELSE b
        b2 == [b1 EXCEPT !.cache[key] = NoEntry]
    IN Js_resolveLocks(b2, key, Undefined, "none")

\* the deletion notifications of one Lru operation, in order: js calls
\* del(key, {skipLruDelete: true}); ts calls Memory.delete(key,
\* {skipExpireStrategyDelete: true})
RECURSIVE Evictions(_, _)
Evictions(b, ev) ==
    IF ev = <<>> THEN b
    ELSE Evictions(IF IsTs THEN [b EXCEPT !.cache[Head(ev)] = NoEntry,
                                          !.order = Without(@, Head(ev))]
                   ELSE Js_del(b, Head(ev), TRUE), Tail(ev))

Out(b, err) == [b |-> b, err |-> err]

\* CrispCache.set of js. hasCb: a callback was passed. The result's err is
\* "none", "size" (the error reported for a missing size), or the exception
\* the call threw.
Js_storable(expiresTtl) == IF impl = "js1" THEN expiresTtl # 0 ELSE expiresTtl > 0

\* a set that stores an entry whether or not a size was given
Js_set_AnySize(b, key, value, o, hasCb) ==
    LET staleTtl == OrElse(o.stale, ConfStaleTtl)
        expiresTtl == OrElse(o.expires, ConfExpiresTtl)
        e == JsCacheEntry(value, staleTtl, expiresTtl, o.size, now)
        resolve(x) == Out(Js_resolveLocks(x, key, value, "none"), "none")
        afterPut(x, err) == IF err # "none" THEN Out(x, err) ELSE resolve(x)
        put(x, r) == afterPut(Evictions([x EXCEPT !.lru = r.l], r.ev), r.err)
        store(x) == IF LruOn THEN put(x, Lru_put(x.lru, key, e.size, maxSize, FALSE))
                    ELSE resolve(x)
    IN IF Js_storable(expiresTtl) THEN store([b EXCEPT !.cache[key] = e])
       ELSE resolve(b)

Js_set(b, key, value, o, hasCb) ==
    LET staleTtl == OrElse(o.stale, ConfStaleTtl)
        expiresTtl == OrElse(o.expires, ConfExpiresTtl)
        e == JsCacheEntry(value, staleTtl, expiresTtl, o.size, now)
        resolve(x) == Out(Js_resolveLocks(x, key, value, "none"), "none")
        afterPut(x, err) == IF err # "none" THEN Out(x, err) ELSE resolve(x)
        put(x, r) == afterPut(Evictions([x EXCEPT !.lru = r.l], r.ev), r.err)
        store(x) == IF LruOn THEN put(x, Lru_put(x.lru, key, e.size, maxSize, FALSE))
                    ELSE resolve(x)
    IN IF LruOn /\ o.size = None
       THEN Out(b, IF hasCb THEN "size" ELSE "TypeError")
       ELSE IF Js_storable(expiresTtl) THEN store([b EXCEPT !.cache[key] = e])
       ELSE resolve(b)

\* ------------------------------------------------------------- records
\* A get call. pc: "wait" (waiting for a fetch), "done" (callback called /
\* promise settled), "threw" (the call raised an exception). path: the branch
\* of get it took. att: the fetcher invocation it started (own) or queued
\* behind.
NewCall(key, skip, force) ==
    [key |-> key, skip |-> skip, force |-> force, pc |-> "wait", path |-> "none",
     err |-> "none", val |-> Undefined, att |-> 0, own |-> FALSE]

\* A fetcher invocation. o: the options _fetch was given. bg: nobody waits for
\* it (stale refresh). dist: a set, delete or eviction touched the key while it
\* was running.
NewFetch(key, o, bg) ==
    [key |-> key, st |-> "run", val |-> Undefined, o |-> o, bg |-> bg, dist |-> FALSE]

Max(S) == CHOOSE x \in S : \A y \in S : y <= x
LastFetch(fs, k) == Max({0} \cup {f \in 1..Len(fs) : fs[f].key = k})
\* the running, undisturbed invocation a new get for k finds, or 0
Seen(k) == Max({0} \cup {f \in Running(k) : ~fetches[f].dist})

\* what the key's entry is when a get is issued
EntryState(k) == IF cache[k] = NoEntry THEN "ABSENT" ELSE State(cache[k])
StoredValue(k) == IF cache[k] = NoEntry THEN Undefined ELSE cache[k].value

Pair(b, fs) == [b |-> b, fs |-> fs]

\* _lock(key, callback) and the fetcher call of _fetch (js): the first caller
\* takes the lock and invokes the fetcher, later ones queue behind it.
\* w is the waiting call, or 0 when _fetch got no callback.
Js_lock(b, key) == b.locks[key] = <<>>

Js_fetch(b, fs, key, o, w, wait) ==
    LET a == IF Js_lock(b, key) THEN Len(fs) + 1 ELSE LastFetch(fs, key)
        mark(x) == IF w = 0 THEN x
                   ELSE [x EXCEPT !.calls[w].att = a, !.calls[w].own = Js_lock(b, key)]
    IN IF Js_lock(b, key)
       THEN Pair(mark([b EXCEPT !.locks[key] = <<IF wait THEN w ELSE 0>>]),
                 Append(fs, NewFetch(key, o, ~wait)))
       ELSE Pair(mark([b EXCEPT !.locks[key] = Append(@, IF wait THEN w ELSE 0)]), fs)

\* The new state of an action. A running invocation other than `done` counts
\* as disturbed when the action changed its key's entry or emptied its lock.
Touched(b, k) ==
    \/ b.cache[k] # cache[k]
    \/ locks[k] # <<>> /\ b.locks[k] = <<>>

Commit(b, fs, done) ==
    /\ cache' = b.cache
    /\ locks' = b.locks
    /\ calls' = b.calls
    /\ lru' = Collect(b.lru)
    /\ Len(lru'.nodes) <= MaxNodes
    /\ order' = b.order
    /\ fetches' = [i \in 1..Len(fs) |->
                     IF /\ i <= Len(fetches) /\ i # done
                        /\ fs[i].st = "run" /\ Touched(b, fs[i].key)
                     THEN [fs[i] EXCEPT !.dist = TRUE] ELSE fs[i]]

Here == Bundle(cache, locks, calls, lru, order)

\* ------------------------------------------------------------- js: get
\* the get call id is answered: callback(null, v)
Done(x, id, v) == [x EXCEPT !.calls[id] = Complete(@, "none", v)]
\* the get call id ends in an exception
Threw(x, id) == [x EXCEPT !.calls[id].pc = "threw"]

\* get, no entry (or forceFetch): skipFetch answers undefined, else _fetch
Js_getMiss(x, fs, key, id, skip) ==
    IF skip THEN Pair(Done(x, id, Undefined), fs)
    ELSE Js_fetch(x, fs, key, NoOpts, id, TRUE)

\* _lru.put(key, cacheEntry.size) of the valid and stale branches
Js_touch(x, key, e) ==
    LET put(r) == Out(Evictions([x EXCEPT !.lru = r.l], r.ev), r.err)
    IN IF LruOn THEN put(Lru_put(x.lru, key, e.size, maxSize, FALSE)) ELSE Out(x, "none")

\* get, valid entry: touch the LRU, answer the value
Js_getValid(x, fs, key, id, e) ==
    LET answer(t) == IF t.err = "none" THEN Done(t.b, id, e.value) ELSE Threw(t.b, id)
    IN Pair(answer(Js_touch(x, key, e)), fs)

\* get, stale entry: touch the LRU, answer the value, then _fetch with the
\* entry's TTLs and no callback
Js_getStale(x, fs, key, id, e) ==
    LET answer(t) == IF t.err = "none"
                     THEN Js_fetch(Done(t.b, id, e.value), fs, key, EntryTtls(e), id, FALSE)
                     ELSE Pair(Threw(t.b, id), fs)
    IN answer(Js_touch(x, key, e))

\* An expired branch without the skipFetch test: it always fetches.
Js_getExpired_NoSkip(x, fs, key, id, e, skip) ==
    Js_fetch(Js_del(x, key, FALSE), fs, key, EntryTtls(e), id, TRUE)

\* get, expired entry: del, then skipFetch answers undefined, else _fetch
\* with the entry's TTLs
Js_getExpired(x, fs, key, id, e, skip) ==
    IF skip THEN Pair(Done(Js_del(x, key, FALSE), id, Undefined), fs)
    ELSE Js_fetch(Js_del(x, key, FALSE), fs, key, EntryTtls(e), id, TRUE)

\* CrispCache.prototype.get(key, {skipFetch, forceFetch}, callback)
JsGet(key, skip, force) ==
    /\ ~IsTs /\ ~halted /\ Len(calls) < MaxCalls
    /\ LET id == Len(calls) + 1
           e == cache[key]
           new(path) == [Here EXCEPT !.calls =
                            Append(calls, [NewCall(key, skip, force) EXCEPT !.path = path])]
           commit(r) == Len(r.fs) <= MaxFetches /\ Commit(r.b, r.fs, 0)
       IN commit(IF e = NoEntry \/ force
                 THEN Js_getMiss(new("miss"), fetches, key, id, skip)
                 ELSE IF JsGetState(e, now) = "VALID"
                 THEN Js_getValid(new("hit"), fetches, key, id, e)
                 ELSE IF JsGetState(e, now) = "STALE"
                 THEN Js_getStale(new("stale"), fetches, key, id, e)
                 ELSE Js_getExpired(new("expired"), fetches, key, id, e, skip))
    /\ failed' = [failed EXCEPT ![key] = FALSE]
    /\ fresh' = Only(key, fresh[key])
    /\ UNCHANGED <<probe, impl, maxSize, now, halted>>

\* ------------------------------------------------------------- js: fetcher
\* what a fetcher may pass as its third argument: nothing or a size
FetcherOptions == IF LruOn THEN {NoOpts, Opts(None, None, Some(1))} ELSE {NoOpts}

\* the value the f-th fetcher invocation produces
FetchValue(f) == IF f = 1 THEN "f1" ELSE "f2"

Merge(o, fo) ==
    Opts(IF fo.stale # None THEN fo.stale ELSE o.stale,
         IF fo.expires # None THEN fo.expires ELSE o.expires,
         IF fo.size # None THEN fo.size ELSE o.size)

\* the callback _fetch hands to the fetcher, called with (null, v, fo)
JsFetchOk(f, v, fo) ==
    /\ ~IsTs /\ ~halted
    /\ f \in 1..Len(fetches) /\ fetches[f].st = "run"
    /\ LET commit(r) ==
           /\ Commit(r.b, [fetches EXCEPT ![f].st = "ok", ![f].val = v], f)
           /\ fresh' = Only(fetches[f].key,
                           Written(IF OrElse(Merge(fetches[f].o, fo).expires, 0) < 0
                                   THEN "fetchNeg"
                                   ELSE IF fetches[f].bg THEN "refresh" ELSE "fetch", v,
                                   Merge(fetches[f].o, fo).size))
       IN commit(Js_set(Here, fetches[f].key, v, Merge(fetches[f].o, fo), FALSE))
    /\ failed' = [failed EXCEPT ![fetches[f].key] = FALSE]
    /\ UNCHANGED <<probe, impl, maxSize, now, halted>>

\* the same callback called with an error: js2 returns after resolving the
\* locks, js1 goes on to set(key, undefined, options)
JsFetchErr(f) ==
    /\ ~IsTs /\ ~halted
    /\ f \in 1..Len(fetches) /\ fetches[f].st = "run"
    /\ LET key == fetches[f].key
           fallThrough(x) == IF impl = "js1"
                             THEN Js_set(x, key, Undefined, fetches[f].o, FALSE).b
                             ELSE x
       IN Commit(fallThrough(Js_resolveLocks(Here, key, Undefined, "FetcherError")),
                 [fetches EXCEPT ![f].st = "err"], f)
    /\ failed' = [failed EXCEPT ![fetches[f].key] = (cache[fetches[f].key] = NoEntry)]
    /\ fresh' = Only(fetches[f].key, NoWrite)
    /\ UNCHANGED <<probe, impl, maxSize, now, halted>>

\* ------------------------------------------------------------- js: set, del
\* The inputs of set: without an LRU the size is stored and never read, so
\* one choice stands for all; with an LRU the key is set with no size, a size
\* that fits and one that does not (the LRU then evicts the key at once).
SetInputs ==
    IF LruOn
    THEN {<<k, Opts(None, None, z)>> : k \in GetKeys, z \in {None} \cup {Some(n) : n \in Sizes}}
    ELSE {<<k, NoOpts>> : k \in GetKeys}

JsSet(key, v, o) ==
    /\ ~IsTs /\ ~halted
    /\ LET commit(r) ==
           /\ Commit(r.b, fetches, 0)
           /\ fresh' = Only(key,
                           IF r.err = "none" THEN Written(SetSrc(o), v, o.size)
                           ELSE Refused(r.err))
       IN commit(Js_set(Here, key, v, o, TRUE))
    /\ failed' = [failed EXCEPT ![key] = FALSE]
    /\ UNCHANGED <<probe, impl, maxSize, now, halted>>

JsDel(key) ==
    /\ ~IsTs /\ ~halted
    /\ Commit(Js_del(Here, key, FALSE), fetches, 0)
    /\ fresh' = Only(key, NoWrite)
    /\ UNCHANGED <<probe, impl, maxSize, now, failed, halted>>

\* ------------------------------------------------------------- js: sweeps
\* _staleCheck: _fetch, without a callback, for every stale entry; ks is the
\* order in which for-in visits the keys
RECURSIVE Js_staleLoop(_, _)
Js_staleLoop(p, ks) ==
    IF ks = <<>> THEN p
    ELSE LET k == Head(ks)
             e == p.b.cache[k]
         IN Js_staleLoop(IF e # NoEntry /\ JsGetState(e, now) = "STALE"
                         THEN Js_fetch(p.b, p.fs, k, EntryTtls(e), 0, FALSE)
                         ELSE p, Tail(ks))

JsStaleCheck(ks) ==
    /\ ~IsTs /\ ~halted
    /\ LET commit(r) == /\ Len(r.fs) <= MaxFetches
                        /\ Len(r.fs) > Len(fetches)
                        /\ Commit(r.b, r.fs, 0)
       IN commit(Js_staleLoop(Pair(Here, fetches), ks))
    /\ UNCHANGED <<probe, impl, maxSize, now, fresh, failed, halted>>

\* _evictCheck: del for every expired entry
RECURSIVE Js_evictLoop(_, _)
Js_evictLoop(b, ks) ==
    IF ks = <<>> THEN b
    ELSE LET k == Head(ks)
             e == b.cache[k]
         IN Js_evictLoop(IF e # NoEntry /\ JsGetState(e, now) = "EXPIRED"
                         THEN Js_del(b, k, FALSE) ELSE b, Tail(ks))

JsEvictCheck ==
    /\ ~IsTs /\ ~halted
    /\ \E k \in Keys : cache[k] # NoEntry /\ JsGetState(cache[k], now) = "EXPIRED"
    /\ Commit(Js_evictLoop(Here, KeySeq), fetches, 0)
    /\ fresh' = [k \in Keys |-> NoWrite]
    /\ UNCHANGED <<probe, impl, maxSize, now, failed, halted>>

\* ------------------------------------------------------------- ts: backend
\* Memory.set(key, entry, size): expireStrategy.set first, entries.set after
Ts_memSet(b, key, e) ==
    LET store(x, err) == IF err # "none" THEN Out(x, err)
                         ELSE Out([x EXCEPT !.cache[key] = e,
                                            !.order = IF x.cache[key] = NoEntry
                                                      THEN Append(@, key) ELSE @], "none")
        put(r) == store(Evictions([b EXCEPT !.lru = r.l], r.ev), r.err)
    IN put(Lru_put(b.lru, key, 1, maxSize, TRUE))

\* CrispCache.set (ts): the size option never reaches the entry
Ts_set(b, key, value, o) ==
    LET staleTtl == OrElse(o.stale, ConfStaleTtl)
        expiresTtl == OrElse(o.expires, ConfExpiresTtl)
        e == TsCacheEntry(value, staleTtl, expiresTtl, o.size, now)
        resolve(r) == IF r.err # "none" THEN r
                      ELSE Out(Ts_resolveLocks(r.b, key, value, "none"), "none")
    IN resolve(IF expiresTtl > 0 THEN Ts_memSet(b, key, e) ELSE Out(b, "none"))

\* CrispCache.delete (ts) over Memory.delete
Ts_delete(b, key) ==
    Ts_resolveLocks([b EXCEPT !.lru = Lru_del(b.lru, key, FALSE).l,
                              !.cache[key] = NoEntry,
                              !.order = Without(@, key)],
                    key, Undefined, "none")

\* lock and fetch (ts): `await this.backend.lock` reads the method instead of
\* calling it, so every caller takes the lock, replaces the queue by its own
\* deferred and invokes the fetcher
Ts_lock(b, key) == TRUE

Ts_fetch(b, fs, key, o, w, wait) ==
    LET mark(x) == IF w = 0 THEN x
                   ELSE [x EXCEPT !.calls[w].att = Len(fs) + 1, !.calls[w].own = TRUE]
    IN Pair(mark([b EXCEPT !.locks[key] = <<IF wait THEN w ELSE 0>>]),
            Append(fs, NewFetch(key, o, ~wait)))

\* ------------------------------------------------------------- ts: get
\* get, no entry (or forceFetch): skipFetch answers undefined, else
\* `await this.fetch(key)` with the default options
Ts_getMiss(x, fs, key, id, skip) ==
    IF skip THEN Pair(Done(x, id, Undefined), fs)
    ELSE Ts_fetch(x, fs, key, Opts(Some(0), Some(0), Some(1)), id, TRUE)

\* get, valid entry
Ts_getValid(x, fs, key, id, e) == Pair(Done(x, id, e.value), fs)

\* get, stale entry: fetch with the entry's ttls, not awaited; the value
Ts_getStale(x, fs, key, id, e) ==
    Ts_fetch(Done(x, id, e.value), fs, key, EntryTtls(e), id, FALSE)

\* get, expired entry: skipFetch deletes and answers undefined, else
\* `await this.fetch(key, {ttls})` with the entry left in the backend
Ts_getExpired(x, fs, key, id, e, skip) ==
    IF skip THEN Pair(Done(Ts_delete(x, key), id, Undefined), fs)
    ELSE Ts_fetch(x, fs, key, EntryTtls(e), id, TRUE)

\* CrispCache.get (ts). Memory.get touches the Lru and hands back the entry.
\* The awaits of get, fetch and lock are on values that are already settled:
\* their continuations are microtasks that run before the next operation is
\* issued, so the call is one step up to its wait for the fetcher.
TsGet(key, skip, force) ==
    /\ IsTs /\ ~halted /\ Len(calls) < MaxCalls
    /\ LET id == Len(calls) + 1
           e == cache[key]
           new(path) == [Here EXCEPT !.calls =
                            Append(calls, [NewCall(key, skip, force) EXCEPT !.path = path]),
                                     !.lru = Lru_get(lru, key)]
           commit(r) == Len(r.fs) <= MaxFetches /\ Commit(r.b, r.fs, 0)
       IN commit(IF e = NoEntry \/ force
                 THEN Ts_getMiss(new("miss"), fetches, key, id, skip)
                 ELSE IF TsState(e, now) = "VALID"
                 THEN Ts_getValid(new("hit"), fetches, key, id, e)
                 ELSE IF TsState(e, now) = "STALE"
                 THEN Ts_getStale(new("stale"), fetches, key, id, e)
                 ELSE Ts_getExpired(new("expired"), fetches, key, id, e, skip))
    /\ failed' = [failed EXCEPT ![key] = FALSE]
    /\ fresh' = Only(key, fresh[key])
    /\ UNCHANGED <<probe, impl, maxSize, now, halted>>

\* ------------------------------------------------------------- ts: fetcher
\* `stale: options.ttls.stale || defaultTtls.stale` and the same for expires
OrDefault(x, d) == IF OrElse(x, 0) = 0 THEN Some(d) ELSE x

\* the fetcher's promise resolves with v
TsFetchOk(f, v) ==
    /\ IsTs /\ ~halted
    /\ f \in 1..Len(fetches) /\ fetches[f].st = "run"
    /\ LET commit(r) ==
           /\ Commit(r.b, [fetches EXCEPT ![f].st = "ok", ![f].val = v], f)
           /\ halted' = (r.err = "hang")
           /\ fresh' = Only(fetches[f].key,
                           Written(IF fetches[f].bg THEN "refresh" ELSE "fetch", v, None))
       IN commit(Ts_set(Here, fetches[f].key, v,
                        Opts(OrDefault(fetches[f].o.stale, ConfStaleTtl),
                             OrDefault(fetches[f].o.expires, ConfExpiresTtl), None)))
    /\ failed' = [failed EXCEPT ![fetches[f].key] = FALSE]
    /\ UNCHANGED <<probe, impl, maxSize, now>>

\* the fetcher's promise rejects
TsFetchErr(f) ==
    /\ IsTs /\ ~halted
    /\ f \in 1..Len(fetches) /\ fetches[f].st = "run"
    /\ Commit(Ts_resolveLocks(Here, fetches[f].key, Undefined, "FetcherError"),
              [fetches EXCEPT ![f].st = "err"], f)
    /\ failed' = [failed EXCEPT ![fetches[f].key] = (cache[fetches[f].key] = NoEntry)]
    /\ fresh' = Only(fetches[f].key, NoWrite)
    /\ UNCHANGED <<probe, impl, maxSize, now, halted>>

\* ------------------------------------------------------------- ts: set, delete
TsSet(key, v, o) ==
    /\ IsTs /\ ~halted
    /\ LET commit(r) ==
           /\ Commit(r.b, fetches, 0)
           /\ halted' = (r.err = "hang")
           /\ fresh' = Only(key,
                           IF r.err = "none" THEN Written(SetSrc(o), v, o.size) ELSE NoWrite)
       IN commit(Ts_set(Here, key, v, o))
    /\ failed' = [failed EXCEPT ![key] = FALSE]
    /\ UNCHANGED <<probe, impl, maxSize, now>>

TsDelete(key) ==
    /\ IsTs /\ ~halted
    /\ Commit(Ts_delete(Here, key), fetches, 0)
    /\ fresh' = Only(key, NoWrite)
    /\ UNCHANGED <<probe, impl, maxSize, now, failed, halted>>

\* ------------------------------------------------------------- ts: sweeps
\* staleCheck / expiresCheck: backend.next() is asked once, so only the first
\* entry of the Map is looked at
Ts_staleCheck(b, fs) ==
    IF b.order # <<>> /\ TsState(b.cache[b.order[1]], now) = "STALE"
    THEN Ts_fetch(b, fs, b.order[1], EntryTtls(b.cache[b.order[1]]), 0, FALSE)
    ELSE Pair(b, fs)

Ts_expiresCheck(b) ==
    IF b.order # <<>> /\ TsState(b.cache[b.order[1]], now) = "EXPIRED"
    THEN Ts_delete(b, b.order[1])
    ELSE b

TsStaleCheck ==
    /\ IsTs /\ ~halted
    /\ order # <<>> /\ TsState(cache[order[1]], now) = "STALE"
    /\ Len(fetches) < MaxFetches
    /\ LET commit(r) == Commit(r.b, r.fs, 0)
       IN commit(Ts_staleCheck(Here, fetches))
    /\ UNCHANGED <<probe, impl, maxSize, now, fresh, failed, halted>>

TsExpiresCheck ==
    /\ IsTs /\ ~halted
    /\ order # <<>> /\ TsState(cache[order[1]], now) = "EXPIRED"
    /\ Commit(Ts_expiresCheck(Here), fetches, 0)
    /\ fresh' = [k \in Keys |-> NoWrite]
    /\ UNCHANGED <<probe, impl, maxSize, now, failed, halted>>

\* ------------------------------------------------------------- time
Tick ==
    /\ ~halted /\ now + TickStep <= MaxTime
    /\ now' = now + TickStep
    /\ fresh' = [k \in Keys |-> NoWrite]
    /\ UNCHANGED <<probe, impl, maxSize, cache, order, lru, locks, calls, fetches, failed, halted>>

\* ------------------------------------------------------------- spec
Init ==
    /\ impl \in Impls
    /\ maxSize \in {0, ConfMaxSize}
    /\ now = 0
    /\ cache = [k \in Keys |-> NoEntry]
    /\ order = <<>>
    /\ lru = NewLru
    /\ locks = [k \in Keys |-> <<>>]
    /\ calls = <<>>
    /\ fetches = <<>>
    /\ failed = [k \in Keys |-> FALSE]
    /\ fresh = [k \in Keys |-> NoWrite]
    /\ halted = FALSE
    /\ probe = NoProbe

Next ==
    \/ \E k \in GetKeys, skip \in BOOLEAN : JsGet(k, skip, FALSE)
    \/ \E f \in 1..MaxFetches, fo \in FetcherOptions : JsFetchOk(f, FetchValue(f), fo)
    \/ \E f \in 1..MaxFetches : JsFetchErr(f)
    \/ \E i \in SetInputs, v \in Values : JsSet(i[1], v, i[2])
    \/ \E k \in GetKeys : JsDel(k)
    \/ JsStaleCheck(KeySeq)
    \/ JsEvictCheck
    \/ \E k \in GetKeys, skip \in BOOLEAN : TsGet(k, skip, FALSE)
    \/ \E f \in 1..MaxFetches : TsFetchOk(f, FetchValue(f))
    \/ \E f \in 1..MaxFetches : TsFetchErr(f)
    \/ \E i \in SetInputs, v \in Values : TsSet(i[1], v, i[2])
    \/ \E k \in GetKeys : TsDelete(k)
    \/ TsStaleCheck
    \/ TsExpiresCheck
    \/ Tick

Spec == Init /\ [][Next]_vars

\* the ts cache; a cache constructed without maxSize; the ts cache without it
InitTs == Init /\ IsTs
InitUnsized == Init /\ maxSize = 0
InitTsUnsized == InitTs /\ maxSize = 0

\* The size-bounded js cache used with two keys: the operations that reach
\* the Lru (set with a size, del, get) and the clock.
InitLru == Init /\ ~IsTs /\ maxSize = ConfMaxSize

NextLru ==
    \/ \E k \in PairKeys : Len(calls) < MaxLruCalls /\ JsGet(k, FALSE, FALSE)
    \/ \E k \in PairKeys, z \in Sizes, v \in Values : JsSet(k, v, Opts(None, None, Some(z)))
    \/ \E k \in PairKeys : JsDel(k)
    \/ Tick

SpecLru == InitLru /\ [][NextLru]_vars

\* The ts cache, whose Memory backend always has an Lru, used with two keys.
InitLruTs == Init /\ IsTs /\ maxSize = ConfMaxSize

NextLruTs ==
    \/ \E k \in PairKeys : Len(calls) < MaxLruCalls /\ TsGet(k, FALSE, FALSE)
    \/ \E k \in PairKeys, v \in Values : TsSet(k, v, NoOpts)
    \/ \E k \in PairKeys : TsDelete(k)
    \/ Tick

SpecLruTs == InitLruTs /\ [][NextLruTs]_vars

\* The cache used with explicit TTLs: set is called with the default expires
\* TTL, with an expires TTL of 0 or with a negative one, on one key; the js
\* fetcher passes no expires TTL or a negative one.
TtlInputs ==
    {<<k, Opts(None, x, IF LruOn THEN Some(1) ELSE None)>> :
        k \in GetKeys, x \in {None, Some(0), Some(0 - 1)}}

NextTtl ==
    \/ \E k \in GetKeys, skip \in BOOLEAN : JsGet(k, skip, FALSE)
    \/ \E f \in 1..MaxFetches, x \in {None, Some(0 - 1)} :
          JsFetchOk(f, FetchValue(f), Opts(None, x, IF LruOn THEN Some(1) ELSE None))
    \/ \E f \in 1..MaxFetches : JsFetchErr(f)
    \/ \E i \in TtlInputs, v \in Values : JsSet(i[1], v, i[2])
    \/ \E k \in GetKeys, skip \in BOOLEAN : TsGet(k, skip, FALSE)
    \/ \E f \in 1..MaxFetches : TsFetchOk(f, FetchValue(f))
    \/ \E f \in 1..MaxFetches : TsFetchErr(f)
    \/ \E i \in TtlInputs, v \in Values : TsSet(i[1], v, i[2])
    \/ Tick

SpecTtl == Init /\ [][NextTtl]_vars

\* The ts cache constructed with a fetchTimeout and a slow fetcher: the first
\* get is issued at time 0, every later one after the timeout has passed.
\* Nothing in the cache reads the option or calls the backend's lock.
\* No fetcher invocation runs forever: the rejection of a promise is enabled
\* exactly while an invocation runs, so weak fairness on it lets every
\* invocation settle, by a value or by an error.
NextTimeout ==
    \/ \E k \in GetKeys :
          /\ IF calls = <<>> THEN now = 0 ELSE now > FetchTimeout
          /\ TsGet(k, FALSE, FALSE)
    \/ \E f \in 1..MaxFetches : TsFetchOk(f, FetchValue(f))
    \/ \E f \in 1..MaxFetches : TsFetchErr(f)
    \/ Tick

SpecTimeout ==
    /\ InitTs
    /\ [][NextTimeout]_vars
    /\ WF_vars(\E f \in 1..MaxFetches : TsFetchErr(f))

\* The cache without a maxSize, read with and without forceFetch: gets that
\* do not skip the fetch, the fetcher's answers, set and the clock.
NextForce ==
    \/ \E k \in GetKeys, force \in BOOLEAN : JsGet(k, FALSE, force)
    \/ \E f \in 1..MaxFetches : JsFetchOk(f, FetchValue(f), NoOpts)
    \/ \E f \in 1..MaxFetches : JsFetchErr(f)
    \/ \E k \in GetKeys, v \in Values : JsSet(k, v, NoOpts)
    \/ \E k \in GetKeys, force \in BOOLEAN : TsGet(k, FALSE, force)
    \/ \E f \in 1..MaxFetches : TsFetchOk(f, FetchValue(f))
    \/ \E f \in 1..MaxFetches : TsFetchErr(f)
    \/ \E k \in GetKeys, v \in Values : TsSet(k, v, NoOpts)
    \/ Tick

SpecForce == InitUnsized /\ [][NextForce]_vars

\* The cache without a maxSize holding up to two entries that were set at
\* different times, and the sweeps its intervals run.
NextSweep ==
    \/ \E k \in PairKeys, v \in Values : JsSet(k, v, NoOpts)
    \/ JsStaleCheck(KeySeq)
    \/ JsEvictCheck
    \/ \E k \in PairKeys, v \in Values : TsSet(k, v, NoOpts)
    \/ TsStaleCheck
    \/ TsExpiresCheck
    \/ Tick

SpecSweep == InitUnsized /\ [][NextSweep]_vars

\* ------------------------------------------------------------- entries alone
\* the three CacheEntry sources, and the TTLs an entry is constructed with
EntryKinds == {"lib", "js", "ts"}
EntryTtls_Range == (0 - 1)..ConfExpiresTtl

\* new CacheEntry(...) at the current time
NewEntry(kind, stale, expires) ==
    /\ probe' = [op |-> "new", kind |-> kind,
                 entry |-> IF kind = "ts"
                           THEN TsCacheEntry("v1", stale, expires, None, now)
                           ELSE JsCacheEntry("v1", stale, expires, None, now)]
    /\ UNCHANGED <<impl, maxSize, now, cache, order, lru, locks, calls, fetches,
                   failed, fresh, halted>>

\* entry.getState() (js) / entry.state (ts) on the entry constructed last
GetState ==
    /\ probe.op \in {"new", "getState"}
    /\ probe' = [op |-> "getState", kind |-> probe.kind, entry |-> probe.entry,
                 at |-> now,
                 state |-> IF probe.kind = "ts" THEN TsState(probe.entry, now)
                           ELSE IF probe.kind = "js" THEN JsGetState(probe.entry, now)
                           ELSE LibGetState(probe.entry, now)]
    /\ UNCHANGED <<impl, maxSize, now, cache, order, lru, locks, calls, fetches,
                   failed, fresh, halted>>

NextEntry ==
    \/ \E kind \in EntryKinds, stale \in EntryTtls_Range, expires \in EntryTtls_Range :
          NewEntry(kind, stale, expires)
    \/ GetState
    \/ Tick

SpecEntry == Init /\ [][NextEntry]_vars

\* ------------------------------------------------------------- the Lru alone
\* An Lru object driven directly. probe.ev are the keys of the deletion
\* notifications the call fired, in order; probe.rec are the keys the caller
\* has put and not deleted or seen evicted, least recently touched first.
RECURSIVE Minus(_, _)
Minus(seq, ev) == IF ev = <<>> THEN seq ELSE Minus(Without(seq, Head(ev)), Tail(ev))

\* the Lru objects a specification follows: at most n Entry objects alive
Bounded(n) ==
    /\ Len(lru'.nodes) <= n
    /\ lru'.size \in (0 - EvictSizeSlack)..(maxSize + EvictSizeSlack)

LruCall(op, key, size, r, rec) ==
    /\ ~halted /\ probe.op # "none"
    /\ lru' = Collect(r.l)
    /\ halted' = (r.err = "hang")
    /\ probe' = [op |-> op, key |-> key, size |-> size, ev |-> r.ev, err |-> r.err,
                 rec |-> Minus(rec, r.ev)]
    /\ UNCHANGED <<impl, maxSize, now, cache, order, locks, calls, fetches, failed, fresh>>

\* lru.put(key, size) (js) / lru.set(key, size) (ts)
LruPut(key, size) ==
    LruCall("put", key, size, Lru_put(lru, key, size, maxSize, IsTs),
            Append(Without(probe.rec, key), key))

\* the cache's get touching the Lru: lru.get(key) (ts); js has no Lru get,
\* its cache calls lru.put(key, cacheEntry.size) for the entry it found
LruGet(key) ==
    /\ IsTs \/ Truthy(lru.hash[key])
    /\ LruCall("get", key, 0,
               IF IsTs THEN Res(Lru_get(lru, key), <<>>, "none")
               ELSE Lru_put(lru, key, lru.nodes[lru.hash[key]].size, maxSize, FALSE),
               IF Truthy(lru.hash[key]) THEN Append(Without(probe.rec, key), key)
               ELSE probe.rec)

\* lru.del(key) (js) / lru.delete(key) (ts)
LruDel(key) ==
    LruCall("del", key, 0, Lru_del(lru, key, TRUE), probe.rec)

\* lru.shift()
LruShift ==
    LruCall("shift", "none", 0, Lru_shift(lru, IsTs), probe.rec)

\* lru.clear()
LruClear ==
    LruCall("clear", "none", 0, Lru_clear(lru, IsTs), <<>>)

InitAlone(maxSizes) ==
    /\ impl \in {"js2", "ts"}
    /\ maxSize \in maxSizes
    /\ now = 0
    /\ cache = [k \in Keys |-> NoEntry]
    /\ order = <<>>
    /\ lru = NewLru
    /\ locks = [k \in Keys |-> <<>>]
    /\ calls = <<>>
    /\ fetches = <<>>
    /\ failed = [k \in Keys |-> FALSE]
    /\ fresh = [k \in Keys |-> NoWrite]
    /\ halted = FALSE
    /\ probe = [op |-> "new", key |-> "none", size |-> 0, ev |-> <<>>, err |-> "none",
                rec |-> <<>>]

InitEvict == InitAlone({ConfMaxSize, EvictMaxSize})

\* the operations the cache calls on its Lru
NextEvict ==
    \/ \E k \in PairKeys, z \in Sizes : LruPut(k, z) /\ Bounded(MaxNodes)
    \/ \E k \in PairKeys : LruGet(k) /\ Bounded(MaxNodes)
    \/ \E k \in PairKeys : LruDel(k) /\ Bounded(MaxNodes)

SpecEvict == InitEvict /\ [][NextEvict]_vars

\* the same with three keys of size 1 each, two of which fit
InitTouch == InitAlone({TouchMaxSize})

NextTouch ==
    \/ \E k \in Keys : LruPut(k, 1) /\ Bounded(TouchMaxNodes)
    \/ \E k \in Keys : LruGet(k) /\ Bounded(TouchMaxNodes)

SpecTouch == InitTouch /\ [][NextTouch]_vars

\* every public operation of the Lru; the ts Lru with the smaller maxSize only
InitShift == InitEvict /\ (IsTs => maxSize = ConfMaxSize)

NextShift ==
    \/ \E k \in PairKeys, z \in Sizes : LruPut(k, z) /\ Bounded(MaxNodes)
    \/ \E k \in PairKeys : LruGet(k) /\ Bounded(MaxNodes)
    \/ \E k \in PairKeys : LruDel(k) /\ Bounded(MaxNodes)
    \/ LruShift /\ Bounded(MaxNodes)
    \/ LruClear /\ Bounded(MaxNodes)

SpecShift == InitShift /\ [][NextShift]_vars

\* The earlier snapshot of the js Lru (src/unnamed/part_005) keeps no hash:
\* del walks the older links from the head to the first node of the key, and
\* calls delCallback whenever the list is not empty, found or not.
\* A walk of more nodes than there are Entry objects never ends (Undef).
RECURSIVE LruOld_find(_, _, _, _)
LruOld_find(l, cursor, key, n) ==
    IF ~Truthy(cursor) THEN Null
    ELSE IF l.nodes[cursor].key = key THEN cursor
    ELSE IF n = 0 THEN Undef
    ELSE LruOld_find(l, l.nodes[cursor].older, key, n - 1)

LruOld_del(l, key, fire) ==
    LET unlink(c) == [Lru_delOlder(Lru_delNewer(l, c), c)
                         EXCEPT !.size = @ - l.nodes[c].size]
        found(c) == IF c = Undef THEN Res(l, <<>>, "hang")
                    ELSE Res(IF Truthy(c) THEN unlink(c) ELSE l,
                             IF fire THEN <<key>> ELSE <<>>, "none")
    IN IF l.head = Null THEN Res(l, <<>>, "none")
       ELSE found(LruOld_find(l, l.head, key, Len(l.nodes)))

LruOld_moveToHead(l, e) ==
    LET relink(d) == IF Truthy(d.head)
                     THEN [d EXCEPT !.nodes[d.head].newer = e, !.nodes[e].older = d.head]
                     ELSE d
        finish(x) == [x EXCEPT !.head = e, !.size = @ + x.nodes[e].size]
        after(r) == Res(finish(relink(r.l)), <<>>, r.err)
    IN IF l.head # Null THEN after(LruOld_del(l, l.nodes[e].key, FALSE))
       ELSE Res(finish(l), <<>>, "none")

LruOld_put(l, key, size, max) ==
    LET e == Len(l.nodes) + 1
        tailFix(x) == IF x.tail = Null THEN [x EXCEPT !.tail = e] ELSE x
        evict(r) == IF r.err # "none" THEN r
                    ELSE Lru_evictLoop(tailFix(r.l), max, FALSE, <<>>)
    IN evict(LruOld_moveToHead([l EXCEPT !.nodes = Append(@, Entry(key, size, FALSE))], e))

LruOldPut(key, size) ==
    LruCall("put", key, size, LruOld_put(lru, key, size, maxSize),
            Append(Without(probe.rec, key), key))

LruOldDel(key) ==
    LruCall("del", key, 0, LruOld_del(lru, key, TRUE), probe.rec)

InitOld ==
    /\ impl = "js1"
    /\ maxSize \in {ConfMaxSize, EvictMaxSize}
    /\ now = 0
    /\ cache = [k \in Keys |-> NoEntry]
    /\ order = <<>>
    /\ lru = NewLru
    /\ locks = [k \in Keys |-> <<>>]
    /\ calls = <<>>
    /\ fetches = <<>>
    /\ failed = [k \in Keys |-> FALSE]
    /\ fresh = [k \in Keys |-> NoWrite]
    /\ halted = FALSE
    /\ probe = [op |-> "new", key |-> "none", size |-> 0, ev |-> <<>>, err |-> "none",
                rec |-> <<>>]

NextOld ==
    \/ \E k \in PairKeys, z \in Sizes : LruOldPut(k, z) /\ Bounded(MaxNodes)
    \/ \E k \in PairKeys : LruOldDel(k) /\ Bounded(MaxNodes)
    \/ LruShift /\ Bounded(MaxNodes)

SpecOld == InitOld /\ [][NextOld]_vars

\* ------------------------------------------------------------- the backend alone
\* A Memory backend driven directly. probe.locks is Memory.locks (key -> the
\* time its lock runs out, Undef when the key has none); probe.held is what
\* the caller knows of each key: whether its last successful lock has not been
\* unlocked since, when that lock was taken and with which timeout.
Mem ==
    IF probe.op = "none"
    THEN [locks |-> [k \in Keys |-> Undef],
          held |-> [k \in Keys |-> [on |-> FALSE, at |-> 0, timeout |-> None]]]
    ELSE [locks |-> probe.locks, held |-> probe.held]

\* Memory.lock(key, timeout) at time t: the new locks and the result
Mem_lock(m, key, timeout, t) ==
    IF Truthy(m[key]) /\ t < m[key] THEN [locks |-> m, ok |-> FALSE]
    ELSE [locks |-> [m EXCEPT ![key] = t + OrElse(timeout, 0)], ok |-> TRUE]

MemLock(key, timeout) ==
    /\ ~halted
    /\ LET r == Mem_lock(Mem.locks, key, timeout, now)
       IN probe' = [op |-> "lock", key |-> key, ok |-> r.ok, locks |-> r.locks,
                    held |-> IF r.ok
                             THEN [Mem.held EXCEPT ![key] =
                                      [on |-> TRUE, at |-> now, timeout |-> timeout]]
                             ELSE Mem.held]
    /\ UNCHANGED <<impl, maxSize, now, cache, order, lru, locks, calls, fetches,
                   failed, fresh, halted>>

\* Memory.unlock(key)
MemUnlock(key) ==
    /\ ~halted
    /\ probe' = [op |-> "unlock", key |-> key, ok |-> TRUE,
                 locks |-> [Mem.locks EXCEPT ![key] = Undef],
                 held |-> [Mem.held EXCEPT ![key].on = FALSE]]
    /\ UNCHANGED <<impl, maxSize, now, cache, order, lru, locks, calls, fetches,
                   failed, fresh, halted>>

NextLock ==
    \/ \E k \in PairKeys, timeout \in {None, Some(TickStep)} : MemLock(k, timeout)
    \/ \E k \in PairKeys : MemUnlock(k)
    \/ Tick

SpecLock == InitTsUnsized /\ [][NextLock]_vars

\* The Memory backend iterated with next(). Its entries are a Map, whose
\* iterator walks the insertion order and passes over deleted entries: the
\* cursor is the number of live entries it has passed, so deleting an entry it
\* has passed moves it back by one. probe.visited are the keys returned since
\* the cursor was made, probe.start the keys stored when it was made, and
\* probe.gone the keys deleted since then before the cursor reached them.
Iter ==
    IF probe.op = "none"
    THEN [cursor |-> Undef, visited |-> <<>>, start |-> <<>>, gone |-> {}]
    ELSE [cursor |-> probe.cursor, visited |-> probe.visited, start |-> probe.start,
          gone |-> probe.gone]

\* a next that makes a new iterator on every call
Mem_next_Restart(od, cursor) ==
    IF od # <<>> THEN [ret |-> od[1], cursor |-> 1] ELSE [ret |-> "null", cursor |-> Undef]

\* Memory.next(cursor): without a cursor the Map's iterator is made first;
\* the result is the next [key, value] or null when the iterator is done
Mem_next(od, cursor) ==
    LET passed == IF cursor = Undef THEN 0 ELSE cursor
    IN IF passed < Len(od) THEN [ret |-> od[passed + 1], cursor |-> passed + 1]
       ELSE [ret |-> "null", cursor |-> Undef]

\* backend.set(key, value) while no iteration is under way
MemSet(key, v) ==
    /\ ~halted /\ Iter.cursor = Undef
    /\ LET commit(r) == r.err = "none" /\ Commit(r.b, fetches, 0)
       IN commit(Ts_memSet(Here, key, TsCacheEntry(v, ConfStaleTtl, ConfExpiresTtl, None, now)))
    /\ probe' = [op |-> "set", ret |-> "none", cursor |-> Undef, visited |-> <<>>,
                 start |-> <<>>, gone |-> {}]
    /\ UNCHANGED <<impl, maxSize, now, failed, fresh, halted>>

\* backend.delete(key), before or during an iteration
MemDelete(key) ==
    /\ ~halted
    /\ Commit(Ts_delete(Here, key), fetches, 0)
    /\ LET at == IF cache[key] = NoEntry THEN 0
                 ELSE CHOOSE i \in 1..Len(order) : order[i] = key
           passed == at # 0 /\ Iter.cursor # Undef /\ at <= Iter.cursor
       IN probe' = [op |-> "delete", ret |-> "none",
                    cursor |-> IF passed THEN Iter.cursor - 1 ELSE Iter.cursor,
                    visited |-> Iter.visited, start |-> Iter.start,
                    gone |-> IF at # 0 /\ Iter.cursor # Undef /\ ~passed
                             THEN Iter.gone \cup {key} ELSE Iter.gone]
    /\ UNCHANGED <<impl, maxSize, now, failed, fresh, halted>>

\* backend.next() to start an iteration, result.next() to go on with it
MemNext ==
    /\ ~halted
    /\ LET fresh_ == Iter.cursor = Undef
           r == Mem_next(order, Iter.cursor)
       IN probe' = [op |-> "next", ret |-> r.ret, cursor |-> r.cursor,
                    visited |-> IF r.ret = "null"
                                THEN (IF fresh_ THEN <<>> ELSE Iter.visited)
                                ELSE Append(IF fresh_ THEN <<>> ELSE Iter.visited, r.ret),
                    start |-> IF fresh_ THEN order ELSE Iter.start,
                    gone |-> IF fresh_ THEN {} ELSE Iter.gone]
    /\ UNCHANGED <<impl, maxSize, now, cache, order, lru, locks, calls, fetches,
                   failed, fresh, halted>>

NextIter ==
    \/ \E k \in Keys, v \in Values : MemSet(k, v)
    \/ \E k \in Keys : MemDelete(k)
    \/ MemNext

SpecIter == InitTsUnsized /\ [][NextIter]_vars

\* ------------------------------------------------------------- clear
\* CrispCache.prototype.clear (the later js cache; the earlier one has none):
\* a new cache object and, with a maxSize, _lru.clear(). The locks stay.
Js_clear(b) ==
    [b EXCEPT !.cache = [k \in Keys |-> NoEntry],
              !.lru = IF LruOn THEN Lru_clear(b.lru, FALSE).l ELSE @]

\* CrispCache.clear (ts) over Memory.clear: a new Map, then
\* expireStrategy.clear(), whose notifications delete from the new Map
Ts_clear(b) ==
    LET emptied == [b EXCEPT !.cache = [k \in Keys |-> NoEntry], !.order = <<>>]
        after(r) == Out(Evictions([emptied EXCEPT !.lru = r.l], r.ev), r.err)
    IN after(Lru_clear(b.lru, TRUE))

JsClear ==
    /\ impl = "js2" /\ ~halted
    /\ Commit(Js_clear(Here), fetches, 0)
    /\ fresh' = [k \in Keys |-> [src |-> "clear"]]
    /\ UNCHANGED <<probe, impl, maxSize, now, failed, halted>>

TsClear ==
    /\ IsTs /\ ~halted
    /\ LET commit(r) == Commit(r.b, fetches, 0) /\ halted' = (r.err = "hang")
       IN commit(Ts_clear(Here))
    /\ fresh' = [k \in Keys |-> [src |-> "clear"]]
    /\ UNCHANGED <<probe, impl, maxSize, now, failed>>

\* The caches that have a clear, with and without a maxSize, used with two
\* keys: sets, gets of one key, the fetcher's answers, deletes and clear.
InitClear == Init /\ impl # "js1"

NextClear ==
    \/ \E k \in GetKeys, skip \in BOOLEAN : JsGet(k, skip, FALSE)
    \/ \E f \in 1..MaxFetches : JsFetchOk(f, FetchValue(f), Opts(None, None, Some(1)))
    \/ \E f \in 1..MaxFetches : JsFetchErr(f)
    \/ \E k \in PairKeys, v \in Values : JsSet(k, v, Opts(None, None, Some(1)))
    \/ \E k \in PairKeys : JsDel(k)
    \/ JsClear
    \/ \E k \in GetKeys, skip \in BOOLEAN : TsGet(k, skip, FALSE)
    \/ \E f \in 1..MaxFetches : TsFetchOk(f, FetchValue(f))
    \/ \E f \in 1..MaxFetches : TsFetchErr(f)
    \/ \E k \in PairKeys, v \in Values : TsSet(k, v, NoOpts)
    \/ \E k \in PairKeys : TsDelete(k)
    \/ TsClear

SpecClear == InitClear /\ [][NextClear]_vars

\* The cache without a maxSize used with one key, under every operation it
\* has, every fetcher invocation completing in the end: an invocation that
\* runs keeps JsFetchErr / TsFetchErr enabled, and it stops running by that
\* step or by the fetcher's answer.
NextLive ==
    \/ \E k \in GetKeys : JsGet(k, FALSE, FALSE)
    \/ \E f \in 1..MaxFetches : JsFetchOk(f, FetchValue(f), NoOpts)
    \/ \E f \in 1..MaxFetches : JsFetchErr(f)
    \/ \E k \in GetKeys, v \in Values : JsSet(k, v, NoOpts)
    \/ \E k \in GetKeys : JsDel(k)
    \/ JsClear
    \/ JsStaleCheck(KeySeq)
    \/ JsEvictCheck
    \/ \E k \in GetKeys : TsGet(k, FALSE, FALSE)
    \/ \E f \in 1..MaxFetches : TsFetchOk(f, FetchValue(f))
    \/ \E f \in 1..MaxFetches : TsFetchErr(f)
    \/ \E k \in GetKeys, v \in Values : TsSet(k, v, NoOpts)
    \/ \E k \in GetKeys : TsDelete(k)
    \/ TsClear
    \/ TsStaleCheck
    \/ TsExpiresCheck
    \/ Tick

SpecLive ==
    /\ InitUnsized
    /\ [][NextLive]_vars
    /\ WF_vars(\E f \in 1..MaxFetches : JsFetchErr(f))
    /\ WF_vars(\E f \in 1..MaxFetches : TsFetchErr(f))

\* ------------------------------------------------------------- construction
\* a constructor that takes whatever it is given for a fetcher
CrispCache_Unchecked(fetcher, max) ==
    [op |-> "construct", fetcher |-> fetcher, err |-> "none", made |-> TRUE, maxSize |-> max]

\* new CrispCache({fetcher, maxSize}): the `new` expression throws, and yields
\* no object, when options.fetcher is falsy; else the instance keeps maxSize
CrispCache(fetcher, max) ==
    IF ~fetcher
    THEN [op |-> "construct", fetcher |-> fetcher, err |-> "Error", made |-> FALSE,
          maxSize |-> 0]
    ELSE [op |-> "construct", fetcher |-> fetcher, err |-> "none", made |-> TRUE,
          maxSize |-> max]

\* the caller constructs a cache, until one is made; probe keeps the outcome
New(fetcher, max) ==
    /\ ~(probe.op = "construct" /\ probe.made)
    /\ probe' = CrispCache(fetcher, max)
    /\ maxSize' = probe'.maxSize
    /\ UNCHANGED <<impl, now, cache, order, lru, locks, calls, fetches, failed, fresh, halted>>

\* Construction, and then the use of the instance, if there is one.
NextNew ==
    \/ \E fetcher \in BOOLEAN, max \in {0, ConfMaxSize} : New(fetcher, max)
    \/ (probe.op = "construct" /\ probe.made) /\ NextForce

SpecNew == InitUnsized /\ [][NextNew]_vars

\* ------------------------------------------------------------- variance
\* The staleTtlVariance / expiresTtlVariance options (ts: defaultTtls.staleVariance
\* / expiresVariance) a cache was constructed with. The caches of the other
\* specifications are constructed without them; a cache constructed with them
\* keeps them in probe.
StaleTtlVariance == IF probe.op = "variance" THEN probe.stale ELSE 0
ExpiresTtlVariance == IF probe.op = "variance" THEN probe.expires ELSE 0

\* Math.random() is r / RandomDen for a draw r of 0..(RandomDen - 1)
\* Math.round(x) of the fraction num / den, den > 0: the nearest integer,
\* a tie going up
MathRound(num, den) == (2 * num + den) \div (2 * den)

\* Math.round(default + (Math.random() * variance) - (variance / 2)), or the
\* default itself when the variance is falsy
GetDefaultTtl(default, variance, r) ==
    IF variance # 0
    THEN MathRound(2 * RandomDen * default + 2 * r * variance - RandomDen * variance,
                   2 * RandomDen)
    ELSE default

GetDefaultStaleTtl(r) == GetDefaultTtl(ConfStaleTtl, StaleTtlVariance, r)
GetDefaultExpiresTtl(r) == GetDefaultTtl(ConfExpiresTtl, ExpiresTtlVariance, r)

\* set(key, v) without TTLs, Math.random() drawing rs and then re: set resolves
\* both TTLs from the defaults and goes on as a set that was given them
SetDefaults(key, v, rs, re) ==
    LET o == Opts(Some(GetDefaultStaleTtl(rs)), Some(GetDefaultExpiresTtl(re)), None)
    IN IF IsTs THEN TsSet(key, v, o) ELSE JsSet(key, v, o)

InitVariance ==
    /\ impl \in Impls
    /\ maxSize = 0
    /\ now = 0
    /\ cache = [k \in Keys |-> NoEntry]
    /\ order = <<>>
    /\ lru = NewLru
    /\ locks = [k \in Keys |-> <<>>]
    /\ calls = <<>>
    /\ fetches = <<>>
    /\ failed = [k \in Keys |-> FALSE]
    /\ fresh = [k \in Keys |-> NoWrite]
    /\ halted = FALSE
    /\ \E sv \in 0..MaxVariance, ev \in 0..MaxVariance :
           probe = [op |-> "variance", stale |-> sv, expires |-> ev]

NextVariance ==
    \/ \E k \in GetKeys, v \in Values, rs \in 0..(RandomDen - 1), re \in 0..(RandomDen - 1) :
           SetDefaults(k, v, rs, re)
    \/ \E k \in GetKeys : JsDel(k)
    \/ \E k \in GetKeys : TsDelete(k)
    \/ Tick

SpecVariance == InitVariance /\ [][NextVariance]_vars

\* ------------------------------------------------------------- properties
\* a step that issues a get call, and the call it issues
Issued == Len(calls') = Len(calls) + 1
Latest == calls'[Len(calls')]
\* the step invokes the fetcher
Invoked == Len(fetches') > Len(fetches)
Waited(c) == ~c.skip /\ c.path \in {"miss", "expired"} /\ c.att # 0

\* C1: a get for an absent key issued while a fetch for the key is outstanding
\* (and nothing else touched the key) queues behind that fetch instead of
\* invoking the fetcher again, and every get for an absent key that waits on a
\* fetch completes with the value that fetch produced.
C1_Once ==
    (Issued /\ ~Latest.skip /\ EntryState(Latest.key) = "ABSENT" /\ Seen(Latest.key) # 0)
        => (~Invoked /\ ~Latest.own /\ Latest.att = Seen(Latest.key))

C1_SameValue ==
    \A i \in 1..Len(calls) :
        (calls[i].path = "miss" /\ Waited(calls[i])
         /\ fetches[calls[i].att].st = "ok" /\ ~fetches[calls[i].att].dist)
            => (calls[i].pc = "done" /\ calls[i].err = "none"
                /\ calls[i].val = fetches[calls[i].att].val)

C1_SingleFlight == [][C1_Once /\ C1_SameValue']_vars

\* C2: at most one fetcher invocation is outstanding for a key at any time.
C2_OneOutstanding == \A k \in Keys : Cardinality(Running(k)) <= 1

\* C3: when a fetch fails, every get that waits on it completes with the
\* fetcher's error and with no value.
C3_ErrorToWaiters ==
    \A i \in 1..Len(calls) :
        (Waited(calls[i]) /\ fetches[calls[i].att].st = "err" /\ ~fetches[calls[i].att].dist)
            => (calls[i].pc = "done" /\ calls[i].err = "FetcherError"
                /\ calls[i].val = Undefined)

\* C4: the first get without skipFetch after a key's fetch failed (the key
\* had no entry) invokes the fetcher, or queues behind an invocation that is
\* still outstanding.
C4_Retry ==
    (Issued /\ ~Latest.skip /\ failed[Latest.key])
        => \/ Invoked /\ Latest.own
           \/ Latest.att \in 1..Len(fetches) /\ fetches[Latest.att].st = "run"

C4_FailureNotCached == [][C4_Retry]_vars

\* C5: a get on a STALE entry with no fetch outstanding for the key invokes
\* the fetcher once, and the get that follows a successful refresh is
\* answered with the refreshed value.
C5_OneRefresh ==
    (Issued /\ EntryState(Latest.key) = "STALE" /\ Running(Latest.key) = {})
        => (Len(fetches') = Len(fetches) + 1 /\ Latest.own
            /\ fetches'[Latest.att].key = Latest.key)

C5_Refreshed ==
    (Issued /\ fresh[Latest.key].src = "refresh")
        => (Latest.pc = "done" /\ Latest.err = "none" /\ Latest.val = fresh[Latest.key].val)

C5_StaleRefresh == [][C5_OneRefresh /\ C5_Refreshed]_vars

\* C6: a get on a STALE entry is answered with the stored value in the step
\* that issues it, while the refresh it started is still outstanding.
C6_Served ==
    (Issued /\ EntryState(Latest.key) = "STALE")
        => /\ Latest.pc = "done" /\ Latest.err = "none"
           /\ Latest.val = StoredValue(Latest.key)
           /\ Latest.own => fetches'[Latest.att].st = "run"

C6_StaleServedFirst == [][C6_Served]_vars

\* C7: when a background refresh fails, no get call receives an error and
\* the entry of its key is left as it was.
C7_Failed(f) ==
    /\ f \in 1..Len(fetches)
    /\ fetches[f].st = "run" /\ fetches'[f].st = "err"
    /\ fetches[f].bg /\ ~fetches[f].dist

C7_Kept ==
    \A f \in 1..MaxFetches :
        C7_Failed(f)
            => /\ cache'[fetches[f].key] = cache[fetches[f].key]
               /\ \A i \in 1..Len(calls) : calls'[i].err = calls[i].err

C7_BackgroundFailure == [][C7_Kept]_vars

\* C8: a get without skipFetch on an EXPIRED entry removes the entry in the
\* step that starts the fetch, and completes with the value the fetch
\* produced or with its error.
C8_Removed ==
    (Issued /\ ~Latest.skip /\ EntryState(Latest.key) = "EXPIRED")
        => /\ cache'[Latest.key] = NoEntry
           /\ Latest.pc = "wait" /\ Latest.att \in 1..Len(fetches')
           /\ fetches'[Latest.att].st = "run"

C8_Outcome ==
    \A i \in 1..Len(calls) :
        (calls[i].path = "expired" /\ Waited(calls[i]) /\ calls[i].pc = "done"
         /\ ~fetches[calls[i].att].dist)
            => \/ /\ fetches[calls[i].att].st = "ok" /\ calls[i].err = "none"
                  /\ calls[i].val = fetches[calls[i].att].val
               \/ /\ fetches[calls[i].att].st = "err" /\ calls[i].err = "FetcherError"

C8_ExpiredGet == [][C8_Removed /\ C8_Outcome']_vars

\* C9 as stated: a get with skipFetch never invokes the fetcher, and on an
\* absent or EXPIRED key it completes with undefined and no error.
C9_Skip(states) ==
    (Issued /\ Latest.skip /\ EntryState(Latest.key) \in states)
        => /\ ~Invoked /\ ~Latest.own
           /\ EntryState(Latest.key) \in {"ABSENT", "EXPIRED"}
                => (Latest.pc = "done" /\ Latest.err = "none" /\ Latest.val = Undefined)

C10_Fits ==
    {z \in {None} \cup {Some(n) : n \in Sizes} :
        maxSize = 0 \/ (z # None /\ Get(z) <= maxSize)}

C10_Get ==
    (Issued /\ fresh[Latest.key].src = "set" /\ fresh[Latest.key].size \in C10_Fits)
        => (Latest.pc = "done" /\ Latest.err = "none"
            /\ Latest.val = fresh[Latest.key].val /\ ~Invoked)

C10_SetThenGet == [][C10_Get]_vars


\* C11: after a set with an expires TTL of 0 has reported success the key is
\* not in storage, and a get for it without skipFetch is not answered from
\* the cache: it invokes the fetcher or waits on an invocation that is running.
C11_NotStored == \A k \in Keys : fresh[k].src = "set0" => cache[k] = NoEntry

C11_Refetch ==
    (Issued /\ ~Latest.skip /\ fresh[Latest.key].src = "set0")
        => \/ Invoked /\ Latest.own
           \/ Latest.pc = "wait" /\ Latest.att \in 1..Len(fetches)
              /\ fetches[Latest.att].st = "run"

C11_ZeroTtl == [][C11_NotStored' /\ C11_Refetch]_vars


\* C12: the state an entry computes at time t is EXPIRED when its expires TTL
\* is non-negative and t - created exceeds it, otherwise STALE when its stale
\* TTL is non-negative and t - created exceeds it, otherwise VALID.
C12_Claimed(e, t) ==
    IF e.expiresTtl >= 0 /\ t - e.created > e.expiresTtl THEN "EXPIRED"
    ELSE IF e.staleTtl >= 0 /\ t - e.created > e.staleTtl THEN "STALE"
    ELSE "VALID"
C12_EntryState ==
    probe.op = "getState" => probe.state = C12_Claimed(probe.entry, probe.at)

\* C13: whenever a put/set or a delete on the Lru has returned, the aggregate
\* size the Lru holds is at most maxSize.
C13_WithinMaxSize ==
    (probe.op \in {"put", "del"} /\ probe.err = "none") => lru.size <= maxSize

\* C14: after any sequence of put/set, get, delete, shift and clear calls that
\* returned, the Lru's aggregate size is the sum of the sizes of the nodes its
\* hash holds, and it is not negative.
RECURSIVE C14_Held(_, _)
C14_Held(l, ks) ==
    IF ks = <<>> THEN 0
    ELSE (IF Truthy(l.hash[Head(ks)]) THEN l.nodes[l.hash[Head(ks)]].size ELSE 0)
         + C14_Held(l, Tail(ks))
C14_SizeIsSum ==
    probe.err = "none" => lru.size >= 0 /\ lru.size = C14_Held(lru, KeySeq)

\* C15: a put/set that returns has evicted the keys the caller holds in
\* least-recently-touched-first order (the key being put is the most recently
\* touched), one notification per key, and leaves the size within maxSize.
C15_LruFirst ==
    LET ord == Append(Without(probe.rec, probe'.key), probe'.key)
        ev == probe'.ev
    IN (probe'.op = "put" /\ probe'.err = "none")
         => /\ Len(ev) <= Len(ord)
            /\ ev = SubSeq(ord, 1, Len(ev))
            /\ lru'.size <= maxSize
C15_EvictionOrder == [][C15_LruFirst]_vars

\* C16: a key the Lru held before a cache operation, or that the operation
\* set, and that the Lru has evicted when the operation is over, has no entry
\* in storage then; and the handler of the deletion notification (js: del
\* with skipLruDelete) leaves the Lru as it is.
C16_Response ==
    \A k \in Keys :
        (~Truthy(lru'.hash[k]) /\ (Truthy(lru.hash[k]) \/ fresh'[k].src = "set"))
            => cache'[k] = NoEntry
C16_NoReentry == ~IsTs => \A k \in Keys : Js_del(Here, k, TRUE).lru = lru
C16_EvictionNotified == [][C16_Response /\ C16_NoReentry]_vars

\* C17: a get that hits a key the caller holds does not evict it, and the
\* next put/set of another key evicts the key of the get only after every
\* other key the caller holds, none of which was touched since the get.
C17_Keys(seq) == {seq[i] : i \in 1..Len(seq)}
C17_Pos(seq, k) == CHOOSE i \in 1..Len(seq) : seq[i] = k
C17_Promoted ==
    (probe'.op = "get" /\ probe'.err = "none" /\ probe'.key \in C17_Keys(probe.rec))
        => probe'.key \notin C17_Keys(probe'.ev)
C17_EvictedLast ==
    (/\ probe.op = "get" /\ probe.err = "none" /\ probe.key \in C17_Keys(probe.rec)
     /\ probe'.op = "put" /\ probe'.err = "none" /\ probe'.key # probe.key
     /\ probe.key \in C17_Keys(probe'.ev))
        => \A m \in C17_Keys(probe.rec) \ {probe.key, probe'.key} :
              /\ m \in C17_Keys(probe'.ev)
              /\ C17_Pos(probe'.ev, m) < C17_Pos(probe'.ev, probe.key)
C17_GetPromotes == [][C17_Promoted /\ C17_EvictedLast]_vars

\* C18: in the js cache with a maxSize, a set that is given no size ends in
\* an error (the error of the missing size passed to its callback, or an
\* exception when it has no callback), and it changes neither the stored
\* entries, nor the Lru and its aggregate size, nor the waiters.
C18_Reports ==
    (~IsTs /\ maxSize # 0)
        => \A k \in GetKeys, v \in Values, hasCb \in BOOLEAN :
              Js_set(Here, k, v, NoOpts, hasCb)
                  = Out(Here, IF hasCb THEN "size" ELSE "TypeError")
C18_SetStep(k) ==
    /\ fresh'[k].src = "error" /\ fresh'[k].err = "size"
    /\ Len(calls') = Len(calls) /\ fetches' = fetches
C18_Unchanged ==
    \A k \in Keys : C18_SetStep(k)
        => cache' = cache /\ lru' = lru /\ locks' = locks /\ calls' = calls
C19_FailedNow(f) ==
    f <= Len(fetches') /\ fetches[f].st = "run" /\ fetches'[f].st = "err"
C19_EntryKept ==
    \A f \in 1..Len(fetches) :
        C19_FailedNow(f) => cache'[fetches[f].key] = cache[fetches[f].key]
C19_FailedFetchStoresNothing == [][C19_EntryKept]_vars

\* C20: a set of key that reports success while a fetcher invocation for key
\* is running completes every get call waiting on key with the value set.
C20_SetStep(k) ==
    /\ fresh'[k].src \in {"set", "set0"}
    /\ Len(calls') = Len(calls) /\ Len(fetches') = Len(fetches)
    /\ \A f \in 1..Len(fetches) : fetches'[f].st = fetches[f].st
C20_Completed(k) ==
    \A i \in 1..Len(calls) :
        (calls[i].key = k /\ calls[i].pc = "wait")
            => /\ calls'[i].pc = "done" /\ calls'[i].err = "none"
               /\ calls'[i].val = fresh'[k].val
C20_SetCompletesWaiters ==
    [][\A k \in Keys : (C20_SetStep(k) /\ Running(k) # {}) => C20_Completed(k)]_vars

\* C21: a delete of key issued while a fetcher invocation for key is running
\* completes every get call waiting on key with the value undefined and no
\* error.
C21_DelStep(k) ==
    /\ now' = now /\ Len(fetches') = Len(fetches)
    /\ \A f \in 1..Len(fetches) : fetches'[f].st = fetches[f].st
    /\ LET r == IF IsTs THEN Ts_delete(Here, k) ELSE Js_del(Here, k, FALSE)
       IN /\ cache' = r.cache /\ locks' = r.locks /\ calls' = r.calls
          /\ order' = r.order /\ lru' = Collect(r.lru)
C21_Completed(k) ==
    \A i \in 1..Len(calls) :
        (calls[i].key = k /\ calls[i].pc = "wait")
            => /\ calls'[i].pc = "done" /\ calls'[i].err = "none"
               /\ calls'[i].val = Undefined
C21_DeleteCompletesWaiters ==
    [][\A k \in GetKeys : (C21_DelStep(k) /\ Running(k) # {}) => C21_Completed(k)]_vars

\* C22: a get issued after the fetchTimeout has passed, while the first
\* fetcher invocation for its key is still running, invokes the fetcher a
\* second time and leaves the first invocation running; and every get call
\* that waits on the key of two such invocations completes in the end.
C22_Second ==
    (Issued /\ calls # <<>> /\ Running(Latest.key) # {})
        => /\ Invoked /\ Latest.own
           /\ \A f \in Running(Latest.key) : fetches'[f].st = "run"
C22_Attached(i) ==
    /\ i <= Len(calls) /\ calls[i].pc = "wait"
    /\ Cardinality({f \in 1..Len(fetches) : fetches[f].key = calls[i].key}) >= 2
C22_TimeoutRefetch ==
    /\ [][C22_Second]_vars
    /\ \A i \in 1..MaxCalls : C22_Attached(i) ~> (i <= Len(calls) /\ calls[i].pc = "done")

\* C23: while a key is held (its last successful lock was not followed by an
\* unlock) and the timeout that lock was given, if any, has not passed, a
\* lock of the key returns false; otherwise it returns true.
C23_Held(k) ==
    /\ Mem.held[k].on
    /\ Mem.held[k].timeout # None => now < Mem.held[k].at + Get(Mem.held[k].timeout)
C23_LockResult ==
    (probe' # probe /\ probe'.op = "lock") => (probe'.ok <=> ~C23_Held(probe'.key))
C23_LockExcludes == [][C23_LockResult]_vars

\* C24: a get with forceFetch and without skipFetch is not answered in the
\* step that issues it, whatever the state of the key's entry: it waits on a
\* fetcher invocation for the key that is running. The step that completes it
\* is the step in which a fetcher invocation for the key settles, and the get
\* completes with that invocation's value, or with an error when it failed
\* (a set of the key, which completes the waiting gets itself, aside).
C24_Waits ==
    (Issued /\ Latest.force /\ ~Latest.skip)
        => /\ Latest.pc = "wait" /\ Latest.path = "miss"
           /\ Latest.att \in 1..Len(fetches')
           /\ fetches'[Latest.att].key = Latest.key
           /\ fetches'[Latest.att].st = "run"
C24_Settled(f, c) ==
    /\ fetches[f].key = c.key /\ fetches[f].st = "run"
    /\ \/ fetches'[f].st = "ok" /\ c.err = "none" /\ c.val = fetches'[f].val
       \/ fetches'[f].st = "err" /\ c.err # "none" /\ c.val = Undefined
C24_FromFetch ==
    \A i \in 1..Len(calls) :
        (/\ calls[i].force /\ calls[i].pc = "wait" /\ calls'[i].pc = "done"
         /\ fresh'[calls[i].key].src \notin {"set", "set0"})
            => \E f \in 1..Len(fetches) : C24_Settled(f, calls'[i])
C24_ForceFetch == [][C24_Waits /\ C24_FromFetch]_vars

\* C25: an expiry sweep run in any state the cache reaches leaves no entry
\* in storage that was EXPIRED when it started, however many entries there
\* are and whichever comes first in iteration order.
C25_Swept == IF IsTs THEN Ts_expiresCheck(Here) ELSE Js_evictLoop(Here, KeySeq)
C25_SweepRemovesExpired ==
    \A k \in Keys :
        (cache[k] # NoEntry /\ State(cache[k]) = "EXPIRED")
            => C25_Swept.cache[k] = NoEntry

\* C26: a stale sweep run in any state the cache reaches invokes the fetcher,
\* with nobody waiting, for every key whose entry is STALE (unless an
\* invocation for the key is running already), and for no other key.
C26_Swept ==
    IF IsTs THEN Ts_staleCheck(Here, fetches)
    ELSE Js_staleLoop(Pair(Here, fetches), KeySeq)
C26_Started(k) ==
    {f \in (Len(fetches) + 1)..Len(C26_Swept.fs) :
        C26_Swept.fs[f].key = k /\ C26_Swept.fs[f].bg}
C26_SweepRefetchesStale ==
    \A k \in Keys :
        IF cache[k] # NoEntry /\ State(cache[k]) = "STALE"
        THEN C26_Started(k) # {} \/ Running(k) # {}
        ELSE C26_Started(k) = {}

\* C27: the keys next() has returned since the cursor was made are, in
\* insertion order and each once, keys that were stored when it was made and
\* not deleted before the cursor reached them; and when next() returns null
\* they are all of those keys.
C27_Expected == SelectSeq(Iter.start, LAMBDA k : k \notin Iter.gone)
C27_IterationVisitsOnce ==
    /\ Len(Iter.visited) <= Len(C27_Expected)
    /\ Iter.visited = SubSeq(C27_Expected, 1, Len(Iter.visited))
    /\ (probe.op = "next" /\ probe.ret = "null") => Iter.visited = C27_Expected
\* an iteration over three entries ended after one of them was deleted
\* before the cursor reached it
C27_Witness ==
    /\ probe.op = "next" /\ probe.ret = "null"
    /\ Len(Iter.start) = 3 /\ Len(Iter.visited) = 2 /\ Iter.gone # {}

\* C28: a set, or a fetch, that stores a value with a negative expires TTL
\* leaves an entry with that value in the cache; an entry with a negative
\* expires TTL is never EXPIRED; and a get (without forceFetch) for a key
\* that has such an entry is answered with the stored value.
C28_Kept ==
    \A k \in Keys :
        fresh'[k].src \in {"setNeg", "fetchNeg"}
            => cache'[k] # NoEntry /\ cache'[k].value = fresh'[k].val
C28_NeverExpired ==
    \A k \in Keys :
        (cache[k] # NoEntry /\ cache[k].expiresTtl < 0) => State(cache[k]) # "EXPIRED"
C28_FromCache ==
    (Issued /\ cache[Latest.key] # NoEntry /\ cache[Latest.key].expiresTtl < 0)
        => /\ Latest.pc = "done" /\ Latest.err = "none"
           /\ Latest.val = StoredValue(Latest.key)
C28_NegativeNeverExpires == [][C28_Kept /\ C28_NeverExpired' /\ C28_FromCache]_vars

\* C29: a value the fetcher delivers together with a negative expires TTL is
\* not in the cache afterwards, and the get that follows (without skipFetch,
\* the key holding no other value) invokes the fetcher or waits on an
\* invocation that is running.
C29_Holds(k) == cache[k] # NoEntry /\ cache[k].value = fresh[k].val
C29_NotRetained ==
    \A k \in Keys : fresh[k].src = "fetchNeg" => ~C29_Holds(k)
C29_Refetch ==
    (/\ Issued /\ ~Latest.skip /\ fresh[Latest.key].src = "fetchNeg"
     /\ cache[Latest.key] # NoEntry => C29_Holds(Latest.key))
        => \/ Invoked /\ Latest.own
           \/ Latest.pc = "wait" /\ Latest.att \in 1..Len(fetches)
              /\ fetches[Latest.att].st = "run"
C29_NegativeNotRetained == [][C29_NotRetained' /\ C29_Refetch]_vars

\* C30: a TTL that set resolves from a configured default with variance V lies
\* in the closed interval [default - V/2, default + V/2] (checked doubled); with
\* V = 0 it is the default itself. The TTLs are those of the entry the set
\* stored, where a caller of the cache reads them.
C30_Within(ttl, default, variance) ==
    /\ 2 * default - variance <= 2 * ttl
    /\ 2 * ttl <= 2 * default + variance
    /\ variance = 0 => ttl = default
C30_VarianceInterval ==
    \A k \in Keys :
        cache[k] # NoEntry =>
            /\ C30_Within(cache[k].staleTtl, ConfStaleTtl, StaleTtlVariance)
            /\ C30_Within(cache[k].expiresTtl, ConfExpiresTtl, ExpiresTtlVariance)
\* the same interval for the numbers getDefaultStaleTtl and getDefaultExpiresTtl
\* return, whatever Math.random() draws
C30_Resolved ==
    \A r \in 0..(RandomDen - 1) :
        /\ C30_Within(GetDefaultStaleTtl(r), ConfStaleTtl, StaleTtlVariance)
        /\ C30_Within(GetDefaultExpiresTtl(r), ConfExpiresTtl, ExpiresTtlVariance)

\* C31: after clear() completes no key is stored and the reported usage size
\* is 0; a get with skipFetch issued then returns undefined without a fetcher
\* invocation, a get without it waits on a running fetcher invocation.
C31_Cleared == ~halted /\ \A k \in Keys : fresh[k].src = "clear"
C31_Empty == (\A k \in Keys : cache[k] = NoEntry) /\ (LruOn => lru.size = 0)
C31_Get ==
    LET c == calls'[Len(calls')] IN
    IF c.skip
    THEN c.pc = "done" /\ c.err = "none" /\ c.val = Undefined /\ fetches' = fetches
    ELSE c.pc = "wait" /\ c.att \in 1..Len(fetches') /\ fetches'[c.att].st = "run"
C31_ClearEmpties ==
    [][/\ C31_Cleared' => C31_Empty'
       /\ C31_Cleared /\ Len(calls') > Len(calls) => C31_Get]_vars

\* C32: constructing a cache without a fetcher throws an error and yields no
\* instance: the attempt leaves nothing that could be used, and no operation
\* has run on it.
C32_NoFetcher == probe.op = "construct" /\ ~probe.fetcher
C32_ConstructFails ==
    C32_NoFetcher =>
        /\ probe.err = "Error" /\ ~probe.made
        /\ calls = <<>> /\ fetches = <<>> /\ \A k \in Keys : cache[k] = NoEntry
\* a construction without a fetcher was attempted and threw
C32_Witness == C32_NoFetcher /\ probe.err = "Error" /\ ~probe.made

\* C33: a key has an entry in the lock table only while a fetcher invocation
\* for it is running; and the step in which an invocation completes, with a
\* value or with an error, leaves the key without an entry and every get that
\* was queued on it completed.
C33_Held == \A k \in Keys : locks[k] # <<>> => Running(k) # {}
C33_Completes(f) == fetches[f].st = "run" /\ fetches'[f].st # "run"
C33_Released(k) ==
    /\ locks'[k] = <<>>
    /\ \A j \in 1..Len(locks[k]) : locks[k][j] # 0 => calls'[locks[k][j]].pc = "done"
C33_LockTable ==
    [][/\ C33_Held'
       /\ \A f \in 1..Len(fetches) : C33_Completes(f) => C33_Released(fetches[f].key)]_vars

\* C34: every get call completes in the end (its callback is called or its
\* promise settles), given that every fetcher invocation completes.
C34_GetsComplete ==
    \A i \in 1..MaxCalls :
        (i <= Len(calls)) ~> (i <= Len(calls) /\ calls[i].pc = "done")

\* C35: on a cache with a maxSize, after every operation that has completed,
\* the keys held in storage are the keys the eviction strategy tracks, and
\* the size it tracks for each is the size of the stored entry.
C35_Stored == {k \in Keys : cache[k] # NoEntry}
C35_Tracked == {k \in Keys : Truthy(lru.hash[k])}
C35_StorageMatchesLru ==
    (maxSize # 0 /\ ~halted /\ \A i \in 1..Len(calls) : calls[i].pc # "threw") =>
        /\ C35_Stored = C35_Tracked
        /\ \A k \in C35_Stored \cap C35_Tracked :
               lru.nodes[lru.hash[k]].size = IF IsTs THEN 1 ELSE cache[k].size

\* C36: once delete(key) or clear() has completed, a fetcher invocation of
\* the key that was running meanwhile does not put the key back when it
\* completes. A state that delete(key) leaves as it is, is a state in which
\* that call has just completed; clear() marks every key of the state it
\* leaves.
C36_AfterDelete(k) == (IF IsTs THEN Ts_delete(Here, k) ELSE Js_del(Here, k, FALSE)) = Here
C36_AfterClear == ~halted /\ \A k \in Keys : fresh[k].src = "clear"
C36_Delivers(f) == fetches[f].st = "run" /\ fetches'[f].st = "ok"
C36_NoReinsert ==
    [][\A f \in 1..Len(fetches) :
          (C36_Delivers(f) /\ (C36_AfterDelete(fetches[f].key) \/ C36_AfterClear))
              => cache'[fetches[f].key] = NoEntry]_vars

\* C37: after any sequence of put/set, get, delete and shift calls that
\* returned, the Lru list is well formed: the head has no newer neighbour,
\* the tail has no older neighbour, and the walk from the head through the
\* older links meets one node per key of the hash, most recently touched
\* first, and ends at the tail.
RECURSIVE C37_Walk(_, _, _)
C37_Walk(l, p, n) ==
    IF ~Truthy(p) \/ n = 0 THEN <<>>
    ELSE <<p>> \o C37_Walk(l, l.nodes[p].older, n - 1)
C37_Reverse(seq) == [i \in 1..Len(seq) |-> seq[Len(seq) + 1 - i]]
C37_Held == {k \in Keys : Truthy(lru.hash[k])}
C37_Ends(w) ==
    IF w = <<>> THEN ~Truthy(lru.tail) ELSE lru.tail = w[Len(w)]
C37_Listed(w) ==
    /\ Len(w) = Cardinality(C37_Held)
    /\ \A i \in 1..Len(w) : lru.hash[lru.nodes[w[i]].key] = w[i]
    /\ [i \in 1..Len(w) |-> lru.nodes[w[i]].key] = C37_Reverse(probe.rec)
C37_WellFormed ==
    (probe.op \in {"put", "get", "del", "shift"} /\ probe.err = "none" /\ ~halted) =>
        /\ Truthy(lru.head) => ~Truthy(lru.nodes[lru.head].newer)
        /\ Truthy(lru.tail) => ~Truthy(lru.nodes[lru.tail].older)
        /\ C37_Listed(C37_Walk(lru, lru.head, Len(lru.nodes) + 1))
        /\ C37_Ends(C37_Walk(lru, lru.head, Len(lru.nodes) + 1))

\* C38: shift() on an empty Lru is a no-op: no error, no deletion
\* notification, head and tail stay empty, the size 0 and the hash empty.
C38_Empty(l) ==
    /\ ~Truthy(l.head) /\ ~Truthy(l.tail)
    /\ l.size = 0
    /\ \A k \in Keys : ~Truthy(l.hash[k])
C38_ShiftNothing ==
    [][(probe'.op = "shift" /\ C38_Empty(lru)) =>
          /\ probe'.err = "none"
          /\ probe'.ev = <<>>
          /\ C38_Empty(lru')]_vars

\* C39: after clear() the Lru has no head and no tail, size 0 and tracks no
\* key, and an insertion into it gives what it gives on a new Lru.
C39_Cleared(l) ==
    /\ ~Truthy(l.head) /\ ~Truthy(l.tail)
    /\ l.size = 0
    /\ \A k \in Keys : ~Truthy(l.hash[k])
C39_Inserted(l, k, z) == Lru_put(l, k, z, maxSize, IsTs)
C39_AsNew(l) ==
    \A k \in PairKeys, z \in Sizes :
        /\ Collect(C39_Inserted(l, k, z).l) = Collect(C39_Inserted(NewLru, k, z).l)
        /\ C39_Inserted(l, k, z).ev = C39_Inserted(NewLru, k, z).ev
        /\ C39_Inserted(l, k, z).err = C39_Inserted(NewLru, k, z).err
C39_ClearResets ==
    [][(probe'.op = "clear" /\ probe'.err = "none" /\ ~halted') =>
          C39_Cleared(lru') /\ C39_AsNew(lru')]_vars

\* C40: deleting a key the Lru does not hold changes nothing (links, size
\* and tracked keys stay as they are), raises no error and fires no
\* deletion notification. The key is held when the hash has it or, in the
\* snapshot without a hash, when a node on the list carries it.
C40_Holds(k) ==
    IF impl = "js1" THEN Truthy(LruOld_find(lru, lru.head, k, Len(lru.nodes)))
    ELSE Truthy(lru.hash[k])
C40_DeleteAbsent ==
    [][\A k \in Keys :
          (probe'.op = "del" /\ probe'.key = k /\ ~C40_Holds(k)) =>
              /\ lru' = lru
              /\ probe'.err = "none"
              /\ probe'.ev = <<>>]_vars

====
